---- MODULE Spec2Model ----
(***************************************************************************)
(* Model of internal/genai/genai.go: Client.ReadGasGuagePic and            *)
(* Client.guessAmbiouousDigits, the two-stage gas-meter reading pipeline.  *)
(*                                                                         *)
(* A Go string is modelled as a sequence of one-character strings, so      *)
(* that strings.Contains and containsOnly are computed character by        *)
(* character.  A formatted text (fmt.Sprintf, fmt.Errorf) is a sequence of *)
(* pieces, each piece a string in that sense; a fixed text of the format   *)
(* is a one-element piece.                                                  *)
(*                                                                         *)
(* The remote collaborators (Files.Upload, genkit.GenerateData,            *)
(* genkit.Generate, Files.Delete) answer nondeterministically: any         *)
(* bounded string, or an error.  A cancelled context surfaces as an error  *)
(* of the call in flight ("context canceled").                             *)
(***************************************************************************)
EXTENDS Integers, Sequences, FiniteSets, TLC

\* ---------------------------------------------------------------- bounds
\* longest string a gateway answers with when runs are sequential
MaxLen == 2
\* number of distinct strings a gateway answers with when runs are concurrent
ConcAnswers == 2

\* characters the gateway answers are drawn from: a digit, the decimal
\* point, the uncertainty marker, and a character outside the alphabet
Chars == {"7", ".", "?", "a"}
\* the strings the gateway answers are drawn from when runs are concurrent,
\* of which the first ConcAnswers are used
ConcAnswerSeq == << <<"?">>, <<"7">>, <<"7", "?">>, <<"7", "7">>, <<>> >>
Dates == {"d1", "d2"}
ConcDates == {"d1"}
\* causes a remote call fails with
RemoteErrs == {"unavailable", "context canceled"}

\* callers sharing the one Client
Procs == {1, 2}
\* the caller of the sequential specification
SeqProcs == {1}

StringsOver(A, n) == UNION {[1..k -> A] : k \in 0..n}
Strings == StringsOver(Chars, MaxLen)
ConcStrings == {ConcAnswerSeq[i] : i \in {j \in 1..Len(ConcAnswerSeq) : j <= ConcAnswers}}

\* ------------------------------------------------------- pure functions
\* s[i..] starts with sub
HasPrefixAt(s, sub, i) ==
    /\ i + Len(sub) - 1 <= Len(s)
    /\ \A j \in 1..Len(sub) : s[i + j - 1] = sub[j]

\* strings.Contains(s, substr)
Contains(s, substr) == \E i \in 1..(Len(s) + 1) : HasPrefixAt(s, substr, i)

\* the literal ".?0123456789" of genai.go:135
allowedChars == <<".", "?", "0", "1", "2", "3", "4", "5", "6", "7", "8", "9">>

\* the loop of containsOnly, from rune i on
RECURSIVE containsOnlyFrom(_, _, _)
containsOnlyFrom(s, chars, i) ==
    IF i > Len(s) THEN TRUE
    ELSE IF ~Contains(chars, <<s[i]>>) THEN FALSE
    ELSE containsOnlyFrom(s, chars, i + 1)

containsOnlyFirst(s, chars) == Len(s) = 0 \/ Contains(chars, <<s[1]>>)

\* containsOnly (genai.go:176-183)
containsOnly(s, chars) == containsOnlyFrom(s, chars, 1)

\* the verb of a format
Verb == <<"%">>

\* fmt.Sprintf / fmt.Errorf: the pieces of the format, each verb replaced
\* by the pieces of the next argument
RECURSIVE SprintfFrom(_, _, _, _)
SprintfFrom(format, args, i, k) ==
    IF i > Len(format) THEN <<>>
    ELSE IF format[i] = Verb
         THEN args[k] \o SprintfFrom(format, args, i + 1, k + 1)
         ELSE <<format[i]>> \o SprintfFrom(format, args, i + 1, k)

Sprintf(format, args) == SprintfFrom(format, args, 1, 1)

\* const fixAmbiguousPromptFmt: text, %s, text, %s, text
fixAmbiguousPromptFmt ==
    << <<"The value ">>, Verb,
       <<" represents the output of a analog-meter-reading analysis. Using the previously recorded meter value ">>,
       Verb,
       <<" as a reference (only if it is not empty), infer and replace the ? characters.">> >>

\* the formats of the errors and of the log line
ErrUploadFmt == << <<"failed to upload: ">>, Verb >>
ErrAnalyzeFmt == << <<"failed to analyze: ">>, Verb >>
ErrGuessFmt == << <<"failed to guess ambiguous digits: ">>, Verb >>
ErrInvalidFmt == << <<"ambious value string, ">>, Verb, <<" is not valid">> >>
ErrGenerateFmt == << <<"failed to generate: ">>, Verb >>
LogAmbiguousFmt == << <<"Ambiguous digits found in the reading: ">>, Verb >>

\* an error of a remote collaborator, as the pieces of its message
RemoteErr(cause) == << <<cause>> >>

\* the nil error, the nil *GasMeterReadResult
NoErr == <<>>
Nil == <<>>

\* the zero GasMeterReadResult
ZeroResult == [Read |-> <<>>, Date |-> "", ReadAt |-> FALSE, ItTakes |-> FALSE]

\* ---------------------------------------------------------------- state
VARIABLES
    lastRead,   \* Client.lastRead as the two words of a Go string: data, len
    pc,         \* pc[p]: where caller p is in ReadGasGuagePic
    file,       \* file[p]: name of the uploaded file, "" before
    out,        \* out[p]: the GasMeterReadResult of GenerateData
    err,        \* err[p]: the local err of ReadGasGuagePic
    amb,        \* amb[p]: ambiguousValueString of guessAmbiouousDigits
    prompt,     \* prompt[p]: text of the Generate call in flight, <<>> if none
    ret,        \* ret[p]: the values ReadGasGuagePic returns
    log,        \* log[p]: lines log.Printf wrote during p's run
    calls,      \* calls[p]: calls made during p's run, by callee
    extracted,  \* extracted[p]: did GenerateData answer with a marker
    startLast,  \* startLast[p]: the words of lastRead when p's run started
    delErr,     \* delErr[p]: did Files.Delete fail in p's run
    resp,       \* resp[p]: resp.Text() of the Generate call, <<>> before
    lastOK      \* reading returned by the most recent successful run

vars == <<lastRead, pc, file, out, err, amb, prompt, ret, log, calls,
          extracted, startLast, delErr, resp, lastOK>>

NoCalls == [upload |-> 0, generateData |-> 0, guess |-> 0, generate |-> 0,
            delete |-> 0]

\* the word pair of the string s
StringHeader(s) == [data |-> s, len |-> Len(s)]

\* the strings a load of the word pair w can observe.  With len within the
\* data it is the prefix; with len beyond the data (a torn pair, seen only
\* when the load races a store) the bytes after the data are whatever
\* memory holds.
LoadString(w) ==
    IF w.len <= Len(w.data)
    THEN {SubSeq(w.data, 1, w.len)}
    ELSE {w.data \o g : g \in [1..(w.len - Len(w.data)) -> Chars]}

Init ==
    /\ lastRead = StringHeader(<<>>)
    /\ pc = [p \in Procs |-> "idle"]
    /\ file = [p \in Procs |-> ""]
    /\ out = [p \in Procs |-> ZeroResult]
    /\ err = [p \in Procs |-> NoErr]
    /\ amb = [p \in Procs |-> <<>>]
    /\ prompt = [p \in Procs |-> <<>>]
    /\ ret = [p \in Procs |-> [result |-> Nil, err |-> NoErr]]
    /\ log = [p \in Procs |-> <<>>]
    /\ calls = [p \in Procs |-> NoCalls]
    /\ extracted = [p \in Procs |-> "none"]
    /\ startLast = [p \in Procs |-> StringHeader(<<>>)]
    /\ delErr = [p \in Procs |-> FALSE]
    /\ resp = [p \in Procs |-> <<>>]
    /\ lastOK = <<>>

Count(p, callee) == calls' = [calls EXCEPT ![p][callee] = @ + 1]

ReturnErrBare(p, format) ==
    ret' = [ret EXCEPT ![p] = [result |-> Nil, err |-> err'[p]]]

\* `return nil, fmt.Errorf(format, err)` with err just assigned
ReturnErr(p, format) ==
    ret' = [ret EXCEPT ![p] = [result |-> Nil,
                               err |-> Sprintf(format, <<err'[p]>>)]]

AfterReturnNoDefer(failed) == IF failed THEN "done" ELSE "deferred"

\* where a return statement below the defer of genai.go:80-85 leads: the
\* deferred call runs before the function returns, on every path
AfterReturn(failed) == "deferred"

IsAmbiguousPrefix(read) == HasPrefixAt(read, <<"?">>, 1)

\* the test of genai.go:113
IsAmbiguous(read) == Contains(read, <<"?">>)

PriorReadCurrent(p) == {out[p].Read}

\* the values the read of c.lastRead at genai.go:143 can yield
PriorRead(p) == LoadString(lastRead)

\* ---------------------------------------------------------------- actions
CallLocked(p) ==
    /\ pc[p] \in {"idle", "done"}
    /\ \A q \in Procs \ {p} : pc[q] \in {"idle", "done"}
    /\ pc' = [pc EXCEPT ![p] = "upload"]
    /\ file' = [file EXCEPT ![p] = ""]
    /\ out' = [out EXCEPT ![p] = ZeroResult]
    /\ err' = [err EXCEPT ![p] = NoErr]
    /\ amb' = [amb EXCEPT ![p] = <<>>]
    /\ prompt' = [prompt EXCEPT ![p] = <<>>]
    /\ ret' = [ret EXCEPT ![p] = [result |-> Nil, err |-> NoErr]]
    /\ log' = [log EXCEPT ![p] = <<>>]
    /\ calls' = [calls EXCEPT ![p] = NoCalls]
    /\ extracted' = [extracted EXCEPT ![p] = "none"]
    /\ startLast' = [startLast EXCEPT ![p] = lastRead]
    /\ delErr' = [delErr EXCEPT ![p] = FALSE]
    /\ resp' = [resp EXCEPT ![p] = <<>>]
    /\ UNCHANGED <<lastRead, lastOK>>

\* a caller enters ReadGasGuagePic (genai.go:56-61); nothing is locked
Call(p) ==
    /\ pc[p] \in {"idle", "done"}
    /\ pc' = [pc EXCEPT ![p] = "upload"]
    /\ file' = [file EXCEPT ![p] = ""]
    /\ out' = [out EXCEPT ![p] = ZeroResult]
    /\ err' = [err EXCEPT ![p] = NoErr]
    /\ amb' = [amb EXCEPT ![p] = <<>>]
    /\ prompt' = [prompt EXCEPT ![p] = <<>>]
    /\ ret' = [ret EXCEPT ![p] = [result |-> Nil, err |-> NoErr]]
    /\ log' = [log EXCEPT ![p] = <<>>]
    /\ calls' = [calls EXCEPT ![p] = NoCalls]
    /\ extracted' = [extracted EXCEPT ![p] = "none"]
    /\ startLast' = [startLast EXCEPT ![p] = lastRead]
    /\ delErr' = [delErr EXCEPT ![p] = FALSE]
    /\ resp' = [resp EXCEPT ![p] = <<>>]
    /\ UNCHANGED <<lastRead, lastOK>>

UploadDefersFirst(p) ==
    /\ pc[p] = "upload"
    /\ Count(p, "upload")
    /\ \/ \E e \in RemoteErrs :
            /\ err' = [err EXCEPT ![p] = RemoteErr(e)]
            /\ ReturnErr(p, ErrUploadFmt)
            /\ pc' = [pc EXCEPT ![p] = "deferred"]
            /\ UNCHANGED file
       \/ /\ file' = [file EXCEPT ![p] = "files/x"]
          /\ pc' = [pc EXCEPT ![p] = "generateData"]
          /\ UNCHANGED <<err, ret>>
    /\ UNCHANGED <<lastRead, out, amb, prompt, log, extracted, startLast, resp,
                   delErr, lastOK>>

UploadDeletesAtOnce(p) ==
    /\ pc[p] = "upload"
    /\ \/ \E e \in RemoteErrs :
            /\ Count(p, "upload")
            /\ err' = [err EXCEPT ![p] = RemoteErr(e)]
            /\ ReturnErr(p, ErrUploadFmt)
            /\ pc' = [pc EXCEPT ![p] = "done"]
            /\ UNCHANGED <<file, delErr>>
       \/ \E failed \in BOOLEAN :
          /\ calls' = [calls EXCEPT ![p].upload = @ + 1, ![p].delete = @ + 1]
          /\ delErr' = [delErr EXCEPT ![p] = failed]
          /\ file' = [file EXCEPT ![p] = "files/x"]
          /\ pc' = [pc EXCEPT ![p] = "generateData"]
          /\ UNCHANGED <<err, ret>>
    /\ UNCHANGED <<lastRead, out, amb, prompt, log, extracted, startLast,
                   resp, lastOK>>

\* c.c.Files.Upload returns (genai.go:72-85): on an error the function
\* returns at once; otherwise the Delete is deferred
Upload(p) ==
    /\ pc[p] = "upload"
    /\ Count(p, "upload")
    /\ \/ \E e \in RemoteErrs :
            /\ err' = [err EXCEPT ![p] = RemoteErr(e)]
            /\ ReturnErr(p, ErrUploadFmt)
            /\ pc' = [pc EXCEPT ![p] = "done"]
            /\ UNCHANGED file
       \/ /\ file' = [file EXCEPT ![p] = "files/x"]
          /\ pc' = [pc EXCEPT ![p] = "generateData"]
          /\ UNCHANGED <<err, ret>>
    /\ UNCHANGED <<lastRead, out, amb, prompt, log, extracted, startLast, resp,
                   delErr, lastOK>>

\* genkit.GenerateData returns (genai.go:90-111)
GenerateData(p, answers, dates) ==
    /\ pc[p] = "generateData"
    /\ Count(p, "generateData")
    /\ \/ \E e \in RemoteErrs :
            /\ err' = [err EXCEPT ![p] = RemoteErr(e)]
            /\ ReturnErr(p, ErrAnalyzeFmt)
            /\ pc' = [pc EXCEPT ![p] = AfterReturn(TRUE)]
            /\ UNCHANGED <<out, extracted>>
       \/ \E r \in answers, d \in dates :
            /\ out' = [out EXCEPT ![p] = [ZeroResult EXCEPT !.Read = r, !.Date = d]]
            /\ extracted' = [extracted EXCEPT ![p] =
                                IF \E i \in 1..Len(r) : r[i] = "?"
                                THEN "marker" ELSE "clean"]
            /\ pc' = [pc EXCEPT ![p] = "check"]
            /\ UNCHANGED <<err, ret>>
    /\ UNCHANGED <<lastRead, file, amb, prompt, log, startLast, resp, delErr, lastOK>>

CheckAmbiguousStoresEarly(p) ==
    /\ pc[p] = "check"
    /\ lastRead' = StringHeader(out[p].Read)
    /\ IF IsAmbiguous(out[p].Read)
       THEN /\ log' = [log EXCEPT ![p] =
                          Append(@, Sprintf(LogAmbiguousFmt, <<<<out[p].Read>>>>))]
            /\ amb' = [amb EXCEPT ![p] = out[p].Read]
            /\ Count(p, "guess")
            /\ pc' = [pc EXCEPT ![p] = "guess"]
       ELSE /\ pc' = [pc EXCEPT ![p] = "finalize"]
            /\ UNCHANGED <<log, amb, calls>>
    /\ UNCHANGED <<file, out, err, prompt, ret, extracted, startLast, resp,
                   delErr, lastOK>>

CheckAmbiguousValidatesAll(p) ==
    /\ pc[p] = "check"
    /\ IF ~containsOnly(out[p].Read, allowedChars)
       THEN /\ err' = [err EXCEPT ![p] = Sprintf(ErrInvalidFmt, <<<<out[p].Read>>>>)]
            /\ ReturnErr(p, ErrGuessFmt)
            /\ pc' = [pc EXCEPT ![p] = AfterReturn(TRUE)]
            /\ UNCHANGED <<log, amb, calls>>
       ELSE /\ UNCHANGED <<err, ret>>
            /\ IF IsAmbiguous(out[p].Read)
               THEN /\ log' = [log EXCEPT ![p] =
                                  Append(@, Sprintf(LogAmbiguousFmt, <<<<out[p].Read>>>>))]
                    /\ amb' = [amb EXCEPT ![p] = out[p].Read]
                    /\ Count(p, "guess")
                    /\ pc' = [pc EXCEPT ![p] = "guess"]
               ELSE /\ pc' = [pc EXCEPT ![p] = "finalize"]
                    /\ UNCHANGED <<log, amb, calls>>
    /\ UNCHANGED <<lastRead, file, out, prompt, extracted, startLast, resp,
                   delErr, lastOK>>

\* the test of genai.go:113 and, when it holds, the log line and the call
\* of guessAmbiouousDigits (genai.go:114-115)
CheckAmbiguous(p) ==
    /\ pc[p] = "check"
    /\ IF IsAmbiguous(out[p].Read)
       THEN /\ log' = [log EXCEPT ![p] =
                          Append(@, Sprintf(LogAmbiguousFmt, <<<<out[p].Read>>>>))]
            /\ amb' = [amb EXCEPT ![p] = out[p].Read]
            /\ Count(p, "guess")
            /\ pc' = [pc EXCEPT ![p] = "guess"]
       ELSE /\ pc' = [pc EXCEPT ![p] = "finalize"]
            /\ UNCHANGED <<log, amb, calls>>
    /\ UNCHANGED <<lastRead, file, out, err, prompt, ret, extracted, startLast, resp,
                   delErr, lastOK>>

\* guessAmbiouousDigits up to the call of genkit.Generate (genai.go:129-150):
\* the alphabet check, then the prompt built from the argument and from
\* c.lastRead as it is read at that moment.  A rejected argument makes the
\* assignment of genai.go:115 store "" in out.Read and the error in err, and
\* ReadGasGuagePic return the wrapped error (genai.go:116-118).
GuessValidate(p) ==
    /\ pc[p] = "guess"
    /\ IF ~containsOnly(amb[p], allowedChars)
       THEN /\ out' = [out EXCEPT ![p].Read = <<>>]
            /\ err' = [err EXCEPT ![p] = Sprintf(ErrInvalidFmt, <<<<amb[p]>>>>)]
            /\ ReturnErr(p, ErrGuessFmt)
            /\ amb' = [amb EXCEPT ![p] = <<>>]
            /\ pc' = [pc EXCEPT ![p] = AfterReturn(TRUE)]
            /\ UNCHANGED <<prompt, calls>>
       ELSE /\ \E prior \in PriorRead(p) :
                 prompt' = [prompt EXCEPT ![p] =
                               Sprintf(fixAmbiguousPromptFmt,
                                       << <<amb[p]>>, <<prior>> >>)]
            /\ Count(p, "generate")
            /\ pc' = [pc EXCEPT ![p] = "generate"]
            /\ UNCHANGED <<out, err, ret, amb>>
    /\ UNCHANGED <<lastRead, file, log, extracted, startLast, resp, delErr, lastOK>>

GenerateFallsBack(p, answers) ==
    /\ pc[p] = "generate"
    /\ \/ \E e \in RemoteErrs :
            /\ UNCHANGED resp
            /\ err' = [err EXCEPT ![p] = Sprintf(ErrGenerateFmt, <<RemoteErr(e)>>)]
            /\ pc' = [pc EXCEPT ![p] = "finalize"]
            /\ UNCHANGED <<out, ret>>
       \/ \E text \in answers :
            /\ resp' = [resp EXCEPT ![p] = text]
            /\ out' = [out EXCEPT ![p].Read = text]
            /\ pc' = [pc EXCEPT ![p] = "finalize"]
            /\ UNCHANGED <<err, ret>>
    /\ amb' = [amb EXCEPT ![p] = <<>>]
    /\ prompt' = [prompt EXCEPT ![p] = <<>>]
    /\ UNCHANGED <<lastRead, file, log, calls, extracted, startLast, delErr,
                   lastOK>>

GenerateReplacesResult(p, answers) ==
    /\ pc[p] = "generate"
    /\ \/ \E e \in RemoteErrs :
            /\ UNCHANGED resp
            /\ out' = [out EXCEPT ![p].Read = <<>>]
            /\ err' = [err EXCEPT ![p] = Sprintf(ErrGenerateFmt, <<RemoteErr(e)>>)]
            /\ ReturnErr(p, ErrGuessFmt)
            /\ pc' = [pc EXCEPT ![p] = AfterReturn(TRUE)]
       \/ \E text \in answers :
            /\ resp' = [resp EXCEPT ![p] = text]
            /\ out' = [out EXCEPT ![p] = [ZeroResult EXCEPT !.Read = text]]
            /\ pc' = [pc EXCEPT ![p] = "finalize"]
            /\ UNCHANGED <<err, ret>>
    /\ amb' = [amb EXCEPT ![p] = <<>>]
    /\ prompt' = [prompt EXCEPT ![p] = <<>>]
    /\ UNCHANGED <<lastRead, file, log, calls, extracted, startLast, delErr,
                   lastOK>>

GenerateRevalidates(p, answers) ==
    /\ pc[p] = "generate"
    /\ \/ \E e \in RemoteErrs :
            /\ UNCHANGED resp
            /\ out' = [out EXCEPT ![p].Read = <<>>]
            /\ err' = [err EXCEPT ![p] = Sprintf(ErrGenerateFmt, <<RemoteErr(e)>>)]
            /\ ReturnErr(p, ErrGuessFmt)
            /\ pc' = [pc EXCEPT ![p] = AfterReturn(TRUE)]
       \/ \E text \in answers :
            /\ resp' = [resp EXCEPT ![p] = text]
            /\ IF Len(text) = Len(amb[p]) /\ containsOnly(text, allowedChars)
               THEN /\ out' = [out EXCEPT ![p].Read = text]
                    /\ pc' = [pc EXCEPT ![p] = "finalize"]
                    /\ UNCHANGED <<err, ret>>
               ELSE /\ out' = [out EXCEPT ![p].Read = <<>>]
                    /\ err' = [err EXCEPT ![p] = Sprintf(ErrInvalidFmt, <<<<text>>>>)]
                    /\ ReturnErr(p, ErrGuessFmt)
                    /\ pc' = [pc EXCEPT ![p] = AfterReturn(TRUE)]
    /\ amb' = [amb EXCEPT ![p] = <<>>]
    /\ prompt' = [prompt EXCEPT ![p] = <<>>]
    /\ UNCHANGED <<lastRead, file, log, calls, extracted, startLast, delErr,
                   lastOK>>

GenerateRetries(p, answers) ==
    /\ pc[p] = "generate"
    /\ \/ \E e \in RemoteErrs :
            /\ err' = [err EXCEPT ![p] = Sprintf(ErrGenerateFmt, <<RemoteErr(e)>>)]
            /\ pc' = [pc EXCEPT ![p] = "guess"]
            /\ UNCHANGED <<out, ret, resp, amb>>
       \/ \E text \in answers :
            /\ resp' = [resp EXCEPT ![p] = text]
            /\ out' = [out EXCEPT ![p].Read = text]
            /\ pc' = [pc EXCEPT ![p] = "finalize"]
            /\ amb' = [amb EXCEPT ![p] = <<>>]
            /\ UNCHANGED <<err, ret>>
    /\ prompt' = [prompt EXCEPT ![p] = <<>>]
    /\ UNCHANGED <<lastRead, file, log, calls, extracted, startLast, delErr,
                   lastOK>>

\* genkit.Generate returns (genai.go:139-155) and its values are assigned to
\* out.Read and err (genai.go:115-118)
Generate(p, answers) ==
    /\ pc[p] = "generate"
    /\ \/ \E e \in RemoteErrs :
            /\ UNCHANGED resp
            /\ out' = [out EXCEPT ![p].Read = <<>>]
            /\ err' = [err EXCEPT ![p] = Sprintf(ErrGenerateFmt, <<RemoteErr(e)>>)]
            /\ ReturnErr(p, ErrGuessFmt)
            /\ pc' = [pc EXCEPT ![p] = AfterReturn(TRUE)]
       \/ \E text \in answers :
            /\ resp' = [resp EXCEPT ![p] = text]
            /\ out' = [out EXCEPT ![p].Read = text]
            /\ pc' = [pc EXCEPT ![p] = "finalize"]
            /\ UNCHANGED <<err, ret>>
    /\ amb' = [amb EXCEPT ![p] = <<>>]
    /\ prompt' = [prompt EXCEPT ![p] = <<>>]
    /\ UNCHANGED <<lastRead, file, log, calls, extracted, startLast, delErr,
                   lastOK>>

\* genai.go:121-124: the two stamps, and the first of the two word stores
\* of `c.lastRead = out.Read` (the order of the two stores is the
\* compiler's)
Finalize(p) ==
    /\ pc[p] = "finalize"
    /\ out' = [out EXCEPT ![p].ItTakes = TRUE, ![p].ReadAt = TRUE]
    /\ \/ /\ lastRead' = [lastRead EXCEPT !.data = out[p].Read]
          /\ pc' = [pc EXCEPT ![p] = "storeLen"]
       \/ /\ lastRead' = [lastRead EXCEPT !.len = Len(out[p].Read)]
          /\ pc' = [pc EXCEPT ![p] = "storeData"]
    /\ UNCHANGED <<file, err, amb, prompt, ret, log, calls, extracted,
                   startLast, resp, delErr, lastOK>>

\* the second word store of genai.go:124, and `return out, nil`
\* (genai.go:126)
FinishStore(p) ==
    /\ pc[p] \in {"storeLen", "storeData"}
    /\ lastRead' = IF pc[p] = "storeLen"
                   THEN [lastRead EXCEPT !.len = Len(out[p].Read)]
                   ELSE [lastRead EXCEPT !.data = out[p].Read]
    /\ ret' = [ret EXCEPT ![p] = [result |-> <<out[p]>>, err |-> NoErr]]
    /\ pc' = [pc EXCEPT ![p] = AfterReturn(FALSE)]
    /\ UNCHANGED <<file, out, err, amb, prompt, log, calls, extracted,
                   startLast, resp, delErr, lastOK>>

DeletePropagates(p) ==
    /\ pc[p] = "deferred"
    /\ Count(p, "delete")
    /\ \E failed \in BOOLEAN :
          /\ delErr' = [delErr EXCEPT ![p] = failed]
          /\ ret' = IF failed
                    THEN [ret EXCEPT ![p] = [result |-> Nil,
                                             err |-> RemoteErr("unavailable")]]
                    ELSE ret
    /\ lastOK' = IF ret'[p].err = NoErr THEN ret'[p].result[1].Read ELSE lastOK
    /\ pc' = [pc EXCEPT ![p] = "done"]
    /\ UNCHANGED <<lastRead, file, out, err, amb, prompt, log, extracted,
                   startLast, resp>>

\* the deferred c.c.Files.Delete (genai.go:80-85), whose value is dropped,
\* and the return to the caller
Delete(p) ==
    /\ pc[p] = "deferred"
    /\ Count(p, "delete")
    /\ \E failed \in BOOLEAN : delErr' = [delErr EXCEPT ![p] = failed]
    /\ lastOK' = IF ret[p].err = NoErr THEN ret[p].result[1].Read ELSE lastOK
    /\ pc' = [pc EXCEPT ![p] = "done"]
    /\ UNCHANGED <<lastRead, file, out, err, amb, prompt, ret, log, extracted,
                   startLast, resp>>

\* one caller, one run at a time
Next ==
    \E p \in SeqProcs :
        \/ Call(p)
        \/ Upload(p)
        \/ GenerateData(p, Strings, Dates)
        \/ CheckAmbiguous(p)
        \/ GuessValidate(p)
        \/ Generate(p, Strings)
        \/ Finalize(p)
        \/ FinishStore(p)
        \/ Delete(p)

Spec == Init /\ [][Next]_vars

\* the strings the gateway answers are drawn from where runs are followed
\* to their end: with and without the marker, inside and outside the
\* alphabet
FairStrings == StringsOver({"?", "a"}, MaxLen)

\* the steps of a run under way: the statements of ReadGasGuagePic and the
\* returns of its remote calls
RunStep(p) ==
    \/ Upload(p)
    \/ GenerateData(p, FairStrings, ConcDates)
    \/ CheckAmbiguous(p)
    \/ GuessValidate(p)
    \/ Generate(p, FairStrings)
    \/ Finalize(p)
    \/ FinishStore(p)
    \/ Delete(p)

NextFair == \E p \in SeqProcs : Call(p) \/ RunStep(p)

\* one caller, one run at a time, every remote call returning and every
\* statement being executed in the end; when the caller calls is its own
\* choice
SpecFair == Init /\ [][NextFair]_vars /\ \A p \in SeqProcs : WF_vars(RunStep(p))

\* several callers on the one Client, with no serialization
NextConc ==
    \E p \in Procs :
        \/ Call(p)
        \/ Upload(p)
        \/ GenerateData(p, ConcStrings, ConcDates)
        \/ CheckAmbiguous(p)
        \/ GuessValidate(p)
        \/ Generate(p, ConcStrings)
        \/ Finalize(p)
        \/ FinishStore(p)
        \/ Delete(p)

SpecConc == Init /\ [][NextConc]_vars
\* ------------------------------------------------------------ properties
\* the reading carries an uncertainty marker
HasMarker(s) == \E i \in 1..Len(s) : s[i] = "?"

\* every character of s is in {'.', '0'..'9', '?'}
Digits == {"0", "1", "2", "3", "4", "5", "6", "7", "8", "9"}
InAlphabet(s) == \A i \in 1..Len(s) : s[i] \in Digits \cup {".", "?"}

\* the ambiguous value and the prior reading a resolution prompt embeds
PromptAmbiguous(pr) == pr[2]
PromptPrior(pr) == pr[4]

\* the error texts of the stages
IsStagingFailed(e) == e # NoErr /\ e[1] = ErrUploadFmt[1]
IsDisambiguationFailed(e) == e # NoErr /\ e[1] = ErrGuessFmt[1]
IsInvalidInput(e) == \E i \in 1..Len(e) : e[i] = ErrInvalidFmt[1]

Returned(p) == pc[p] = "done"
Succeeded(p) == Returned(p) /\ ret[p].err = NoErr
\* the run of p is past the test of genai.go:113
PastCheck(p) == pc[p] \in {"guess", "generate", "finalize", "storeLen",
                           "storeData", "deferred", "done"}
                /\ extracted[p] # "none"
Quiet == \A p \in Procs : pc[p] \in {"idle", "done"}

\* C1: every run that returns a result returns a reading without '?'
C1_NoMarkerOnSuccess ==
    \A p \in Procs : Succeeded(p) => ~HasMarker(ret[p].result[1].Read)

\* C2: once the upload has succeeded the Delete is invoked exactly once by
\* the time the run returns, whatever the exit, and not before the return
\* statement; it is invoked zero times when the upload fails
C2_DisposalExactlyOnce ==
    \A p \in Procs :
        /\ Returned(p) => calls[p].delete = (IF file[p] # "" THEN 1 ELSE 0)
        /\ pc[p] \notin {"idle", "done"} => calls[p].delete = 0

C2_Witness ==
    \E p \in Procs :
        /\ Returned(p) /\ file[p] # "" /\ calls[p].delete = 1
        /\ IsDisambiguationFailed(ret[p].err)
        /\ err[p][Len(err[p])] = <<"context canceled">>

\* C3: guessAmbiouousDigits rejects its argument with the InvalidInput error,
\* having made no Generate call, exactly when a character of the argument
\* is outside the alphabet; otherwise it goes on to the Generate call
C3_ValidationBeforeCall ==
    [][\A p \in Procs :
          pc[p] = "guess" /\ pc'[p] # "guess" =>
             IF InAlphabet(amb[p])
             THEN /\ pc'[p] = "generate"
                  /\ calls'[p].generate = 1
                  /\ ret'[p].err = NoErr
             ELSE /\ IsInvalidInput(err'[p])
                  /\ err'[p][2] = amb[p]
                  /\ ret'[p].err # NoErr
                  /\ calls'[p].generate = 0
                  /\ pc'[p] = "deferred"]_vars

C3_Witness ==
    \E p \in Procs :
        /\ pc[p] = "deferred"
        /\ IsInvalidInput(err[p])
        /\ err[p][2] = <<"?", "a">>
        /\ calls[p].generate = 0

\* C4: a GenerateData reading with '?' leads to exactly one call of
\* guessAmbiouousDigits, whose argument is that reading; a reading without
\* '?' leads to no such call and to no Generate call
C4_DisambiguationTrigger ==
    \A p \in Procs :
        /\ PastCheck(p) /\ extracted[p] = "marker" => calls[p].guess = 1
        /\ PastCheck(p) /\ extracted[p] = "clean" =>
              calls[p].guess = 0 /\ calls[p].generate = 0
        /\ pc[p] \in {"guess", "generate"} =>
              extracted[p] = "marker" /\ amb[p] = out[p].Read
        /\ pc[p] = "generate" => PromptAmbiguous(prompt[p]) = out[p].Read
        /\ calls[p].guess <= 1

C4_Witness ==
    \E p \in Procs :
        /\ pc[p] = "generate"
        /\ calls[p].guess = 1
        /\ amb[p] = <<"7", "?">>
        /\ PromptAmbiguous(prompt[p]) = <<"7", "?">>

\* C5: with runs one at a time, the prior reading in a run's resolution
\* prompt is the reading the most recent successful run returned ("" if
\* none), and the run has not written lastRead by then
C5_PriorIsPreviousRun ==
    \A p \in Procs :
        /\ pc[p] = "generate" => PromptPrior(prompt[p]) = lastOK
        /\ pc[p] \in {"upload", "generateData", "check", "guess", "generate"}
              => lastRead = startLast[p]

C5_Witness ==
    \E p \in Procs :
        /\ pc[p] = "generate"
        /\ lastOK = <<"7", ".">>
        /\ PromptPrior(prompt[p]) = <<"7", ".">>
        /\ amb[p] = <<"7", "?">>

\* C6: with runs one at a time, between runs lastRead is the reading the
\* most recent successful run returned ("" if none), and a run that
\* returned an error left lastRead as it was when the run started
C6_LastReadIsLastSuccess ==
    /\ Quiet => lastRead = StringHeader(lastOK)
    /\ \A p \in Procs :
          /\ Succeeded(p) => lastRead = StringHeader(ret[p].result[1].Read)
          /\ Returned(p) /\ ret[p].err # NoErr => lastRead = startLast[p]

C6_Witness ==
    \E p \in Procs :
        /\ Returned(p)
        /\ ret[p].err # NoErr
        /\ calls[p].guess = 1
        /\ lastRead = StringHeader(<<"7", "a">>)

\* C7: when guessAmbiouousDigits returns an error, ReadGasGuagePic returns
\* that error wrapped and a nil result, and lastRead is as it was when the
\* run started
C7_NoFallback ==
    \A p \in Procs :
        pc[p] \in {"finalize", "storeLen", "storeData", "deferred", "done"}
        /\ calls[p].guess = 1 /\ err[p] # NoErr
        => /\ pc[p] \in {"deferred", "done"}
           /\ ret[p].result = Nil
           /\ IsDisambiguationFailed(ret[p].err)
           /\ lastRead = startLast[p]

C7_Witness ==
    \E p \in Procs :
        /\ Returned(p)
        /\ calls[p].generate = 1
        /\ err[p] # NoErr
        /\ ret[p].result = Nil
        /\ lastRead = StringHeader(<<"7">>)

\* C8: when the upload fails, ReadGasGuagePic returns the upload error and
\* a nil result, having made no other call, written no log line and left
\* lastRead as it was
C8_StagingFailureIsClean ==
    \A p \in Procs :
        Returned(p) /\ file[p] = "" =>
           /\ ret[p].result = Nil
           /\ IsStagingFailed(ret[p].err)
           /\ calls[p] = [NoCalls EXCEPT !.upload = 1]
           /\ log[p] = <<>>
           /\ lastRead = startLast[p]

C8_Witness ==
    \E p \in Procs :
        /\ Returned(p) /\ file[p] = ""
        /\ IsStagingFailed(ret[p].err)
        /\ lastRead = StringHeader(<<"7">>)

\* C9: the step in which the deferred Delete runs changes neither the
\* values ReadGasGuagePic returns nor lastRead, whether the Delete fails
\* or not
C9_DisposalFailureSuppressed ==
    [][\A p \in Procs :
          pc[p] = "deferred" /\ pc'[p] = "done" =>
             /\ ret'[p] = ret[p]
             /\ lastRead' = lastRead]_vars

C9_Witness ==
    \E p \in Procs :
        /\ Succeeded(p)
        /\ delErr[p]
        /\ calls[p].delete = 1
        /\ lastRead = StringHeader(ret[p].result[1].Read)

\* no step of a run that enters the function, reads lastRead or writes it
\* waits for another run
NoLock ==
    \A p \in Procs :
        /\ pc[p] \in {"idle", "done"} => ENABLED Call(p)
        /\ pc[p] = "guess" => ENABLED GuessValidate(p)
        /\ pc[p] = "finalize" => ENABLED Finalize(p)
        /\ pc[p] \in {"storeLen", "storeData"} => ENABLED FinishStore(p)

\* the prior reading of a prompt is what lastRead holds when the prompt is
\* built, and a run's stores overwrite whatever another run has stored
UnsynchronizedAccess ==
    \A p \in Procs :
        /\ pc[p] = "guess" /\ pc'[p] = "generate" =>
              PromptPrior(prompt'[p]) \in LoadString(lastRead)
        /\ pc[p] = "finalize" /\ pc'[p] = "storeLen" =>
              lastRead' = [lastRead EXCEPT !.data = out[p].Read]
        /\ pc[p] = "finalize" /\ pc'[p] = "storeData" =>
              lastRead' = [lastRead EXCEPT !.len = Len(out[p].Read)]
        /\ pc[p] = "storeLen" /\ pc'[p] # "storeLen" =>
              lastRead' = [lastRead EXCEPT !.len = Len(out[p].Read)]
        /\ pc[p] = "storeData" /\ pc'[p] # "storeData" =>
              lastRead' = [lastRead EXCEPT !.data = out[p].Read]

\* C10: with two callers on one Client and no serialization, no access to
\* lastRead is guarded: a run enters, reads the slot and writes it while
\* another run is under way, so that the prior reading of a prompt is
\* whatever the slot holds at that moment and the last store wins
C10_LastReadIsARace == []NoLock /\ [][UnsynchronizedAccess]_vars

\* a run's prompt embeds a reading that the other run returned and stored
\* after the first run had started
C10_Witness ==
    \E p \in Procs, q \in Procs :
        /\ p # q
        /\ pc[p] = "generate"
        /\ Succeeded(q)
        /\ startLast[p] = StringHeader(<<>>)
        /\ PromptPrior(prompt[p]) = <<"7">>
        /\ ret[q].result[1].Read = <<"7">>
        /\ lastRead = StringHeader(<<"7">>)

IsInferenceFailed(e) == e # NoErr /\ e[1] = ErrAnalyzeFmt[1]
\* the text of an error after its first piece: the cause a format embeds
Cause(e) == SubSeq(e, 2, Len(e))

\* C11: a run returns either a result or an error, never both and never
\* neither, and the error's text names the stage: the upload text for an
\* upload failure, the analyze text for a GenerateData failure, the guess
\* text for a rejected argument and for a failed Generate call, each
\* followed by the text of the cause
C11_ErrorIdentifiesStage ==
    \A p \in Procs :
        Returned(p) =>
           /\ (ret[p].result = Nil) <=> (ret[p].err # NoErr)
           /\ file[p] = "" =>
                 IsStagingFailed(ret[p].err) /\ Cause(ret[p].err) = err[p]
           /\ file[p] # "" /\ extracted[p] = "none" =>
                 IsInferenceFailed(ret[p].err) /\ Cause(ret[p].err) = err[p]
           /\ extracted[p] # "none" /\ err[p] # NoErr =>
                 /\ IsDisambiguationFailed(ret[p].err)
                 /\ Cause(ret[p].err) = err[p]
                 /\ IF calls[p].generate = 0
                    THEN IsInvalidInput(err[p])
                    ELSE err[p][1] = ErrGenerateFmt[1]
           /\ extracted[p] # "none" /\ err[p] = NoErr =>
                 ret[p].err = NoErr /\ ret[p].result # Nil

C11_Witness ==
    \E p \in Procs :
        /\ Returned(p)
        /\ ret[p].result = Nil
        /\ IsDisambiguationFailed(ret[p].err)
        /\ IsInvalidInput(Cause(ret[p].err))
        /\ calls[p].generate = 0

Running(p) == pc[p] \notin {"idle", "done"}

\* no callee is called twice in a run
NoRetry ==
    \A p \in Procs :
        \A callee \in DOMAIN NoCalls : calls[p][callee] <= 1

\* a run whose return values hold an error is at its deferred Delete or has
\* returned, has not stamped its result nor stored lastRead, and made no
\* call of a stage after the one that failed
FailureShortCircuits ==
    \A p \in Procs :
        ret[p].err # NoErr =>
           /\ pc[p] \in {"deferred", "done"}
           /\ ~out[p].ReadAt /\ ~out[p].ItTakes
           /\ lastRead = startLast[p]
           /\ IsStagingFailed(ret[p].err) =>
                 /\ pc[p] = "done"
                 /\ calls[p].generateData = 0 /\ calls[p].delete = 0
           /\ IsStagingFailed(ret[p].err) \/ IsInferenceFailed(ret[p].err) =>
                 calls[p].guess = 0 /\ calls[p].generate = 0

\* C12: with every remote call returning, every run under way returns; no
\* callee is called twice in a run; a failed stage is followed by no later
\* stage
C12_TerminatesWithoutRetry ==
    /\ \A p \in Procs : Running(p) ~> Returned(p)
    /\ []NoRetry
    /\ []FailureShortCircuits

C12_Witness ==
    \E p \in Procs :
        /\ Returned(p)
        /\ IsDisambiguationFailed(ret[p].err)
        /\ calls[p] = [upload |-> 1, generateData |-> 1, guess |-> 1,
                       generate |-> 1, delete |-> 1]

\* the Generate call of p's run has returned
PastGenerate(p) == pc[p] \in {"finalize", "storeLen", "storeData", "deferred",
                              "done"}
                   /\ calls[p].generate = 1

\* C13: once the Generate call has returned, the run fails only if that
\* call itself failed; otherwise, whatever the text answered, out.Read is
\* that text, and so are the reading returned and lastRead when the run
\* has returned
C13_ResolutionVerbatim ==
    \A p \in Procs :
        PastGenerate(p) =>
           IF err[p] = NoErr
           THEN /\ out[p].Read = resp[p]
                /\ pc[p] \in {"deferred", "done"} =>
                      /\ ret[p].err = NoErr
                      /\ ret[p].result # Nil
                      /\ ret[p].result[1].Read = resp[p]
                      /\ lastRead = StringHeader(resp[p])
           ELSE /\ err[p][1] = ErrGenerateFmt[1]
                /\ resp[p] = <<>>

\* the ambiguous reading "7?" answered with the one character "a"
C13_Witness ==
    \E p \in Procs :
        /\ Succeeded(p)
        /\ calls[p].generate = 1
        /\ log[p] = <<Sprintf(LogAmbiguousFmt, <<<<<<"7", "?">>>>>>)>>
        /\ resp[p] = <<"a">>
        /\ ret[p].result[1].Read = <<"a">>
        /\ lastRead = StringHeader(<<"a">>)

\* a remote call of p's run other than the Delete is in flight
InFlight(p) == pc[p] \in {"upload", "generateData", "generate"}

\* the step is p's Delete
DeleteStep(p) == calls'[p].delete = calls[p].delete + 1

\* the step issues or completes another remote call of p's run
RemoteStep(p) ==
    \E callee \in {"upload", "generateData", "generate"} :
        calls'[p][callee] # calls[p][callee]

\* C14: in a run the Delete is issued with the GenerateData call returned
\* and with the Generate call, if one was made, returned; once it is issued
\* the run makes no other remote call
C14_DisposalIsLast ==
    /\ [](\A p \in Procs : calls[p].delete > 0 => ~InFlight(p) /\ Returned(p))
    /\ [][\A p \in Procs :
             /\ DeleteStep(p) =>
                   /\ ~RemoteStep(p)
                   /\ calls[p].generateData = 1
                   /\ pc[p] \notin {"generateData", "check", "guess",
                                    "generate"}
                   /\ prompt[p] = <<>>
                   /\ pc'[p] = "done"
             /\ calls[p].delete > 0 /\ pc'[p] # "upload" => ~RemoteStep(p)]_vars

C14_Witness ==
    \E p \in Procs :
        /\ Succeeded(p)
        /\ calls[p] = [upload |-> 1, generateData |-> 1, guess |-> 1,
                       generate |-> 1, delete |-> 1]
        /\ resp[p] = <<"7", "7">>

\* a log line other than the one of genai.go:114, the only log.Printf of
\* the file
IsCleanupLog(line) == line[1] # LogAmbiguousFmt[1]

\* C15: a run whose Delete failed has written a log line that records the
\* failure
C15_DisposalFailureLogged ==
    \A p \in Procs :
        Returned(p) /\ delErr[p] =>
           \E i \in 1..Len(log[p]) : IsCleanupLog(log[p][i])

\* C16: a GenerateData reading without '?' is never checked against the
\* alphabet: whatever its characters, the run makes no call of
\* guessAmbiouousDigits, meets no error, returns that reading and stores
\* it in lastRead, from which the next prompt takes its prior reading
C16_CleanReadingUnchecked ==
    \A p \in Procs :
        /\ PastCheck(p) /\ extracted[p] = "clean" =>
              /\ calls[p].guess = 0
              /\ err[p] = NoErr /\ ret[p].err = NoErr
              /\ pc[p] \in {"deferred", "done"} =>
                    /\ ret[p].result # Nil
                    /\ ret[p].result[1].Read = out[p].Read
                    /\ lastRead = StringHeader(out[p].Read)
        /\ pc[p] = "generate" =>
              PromptPrior(prompt[p]) \in LoadString(lastRead)

\* the reading "7a" returned and stored
C16_Witness ==
    \E p \in Procs :
        /\ Succeeded(p)
        /\ extracted[p] = "clean"
        /\ calls[p].guess = 0
        /\ ~InAlphabet(ret[p].result[1].Read)
        /\ ret[p].result[1].Read = <<"7", "a">>
        /\ lastRead = StringHeader(<<"7", "a">>)

\* p's run holds the result GenerateData answered
HoldsResult(p) == pc[p] \in {"check", "guess", "generate", "finalize",
                             "storeLen", "storeData", "deferred"}

\* C17: from the return of GenerateData to the return of the run no step
\* changes out.Date, the resolution prompt does not embed it, and the date
\* of a returned result is out.Date, one of the dates GenerateData answers
C17_DateUntouched ==
    /\ [][\A p \in Procs :
             HoldsResult(p) => out'[p].Date = out[p].Date]_vars
    /\ [](\A p \in Procs :
             /\ pc[p] = "generate" =>
                   \A i \in 1..Len(prompt[p]) : prompt[p][i] # <<out[p].Date>>
             /\ Succeeded(p) =>
                   /\ ret[p].result[1].Date = out[p].Date
                   /\ out[p].Date \in Dates \cup ConcDates)

C17_Witness ==
    \E p \in Procs :
        /\ Succeeded(p)
        /\ calls[p].generate = 1
        /\ resp[p] = <<"7", ".">>
        /\ ret[p].result[1].Date = "d2"
====
